---- MODULE Spec2Model ----
(***************************************************************************)
(* sysver (src/sysver.c): a one-shot reporting tool.  main() hands argv to *)
(* match_args(), switches on the returned code and runs one query:         *)
(* sysctl(), uname() or get_inst_kern_ver(), the scan of the kernel image  *)
(* for the "@(#)" marker.                                                   *)
(*                                                                         *)
(* A C string is a tuple of one-character strings.  A byte of the kernel   *)
(* image is one of the symbols of Byte.  Pointers into buf are 0-based     *)
(* indices, as in the source.                                              *)
(***************************************************************************)
EXTENDS Integers, Sequences, FiniteSets

VARIABLES
    argv,       \* argv[1] is the program name, argv[2] the first argument (C's argv[1])
    uid,        \* getuid()
    euid,       \* geteuid()
    kern,       \* the bytes of the file at BSD_KERN_PATH
    pc,         \* position of the process
    code,       \* what match_args returned
    byte_out,   \* main's byte_out
    fd,         \* the descriptor of get_inst_kern_ver: "none", "open", "closed"
    off,        \* file offset of fd
    closes,     \* number of close(fd) calls made
    buf,        \* get_inst_kern_ver's buf[], BufSize bytes
    past,       \* the stack bytes that follow buf[] (never written by read())
    nread,      \* what the last read() returned
    p,          \* get_inst_kern_ver's p, an index into buf
    touched,    \* highest index of buf read while handling the current chunk
    kern_ver,   \* main's kern_ver: [null |-> TRUE] or the duplicated string
    out,        \* the one message the process has written
    status      \* the exit status, meaningful when pc = "exit"

vars == <<argv, uid, euid, kern, pc, code, byte_out, fd, off, closes, buf,
          past, nread, p, touched, kern_ver, out, status>>

(***************************************************************************)
(* Bounds of the model.                                                    *)
(***************************************************************************)
\* sizeof(buf) is 2048 in the source; the model scans a shorter buffer.
BufSize == 6
\* Number of stack bytes after buf[] that the model gives a value; the byte
\* after them is taken to be NUL.
PastLen == 4
\* A kernel image is a concatenation of at most MaxSegs segments of Segs.
MaxSegs == 4

(***************************************************************************)
(* Program constants.                                                      *)
(***************************************************************************)
EXIT_SUCCESS == 0
EXIT_FAILURE == 1

NUL == "NUL"
NL  == "LF"
Byte == {"@", "(", "#", ")", NL, NUL, "v"}
Marker == <<"@", "(", "#", ")">>

Min(a, b) == IF a < b THEN a ELSE b
Max(a, b) == IF a > b THEN a ELSE b

\* struct command_option cb[] of main; the {0, NULL} terminator is the end
\* of the sequence.
cb_swapped ==
    << [code |-> 1,  cmd |-> <<"-","m","a","c","h","i","n","e">>],
       [code |-> 2,  cmd |-> <<"-","m","o","d","e","l">>],
       [code |-> 5,  cmd |-> <<"-","n","c","p","u">>],
       [code |-> 4,  cmd |-> <<"-","b","o","r","d","e","r">>],
       [code |-> 3,  cmd |-> <<"-","o","n","c","p","u">>],
       [code |-> 6,  cmd |-> <<"-","i","s","s","m","t">>],
       [code |-> 7,  cmd |-> <<"-","u","n","a","m","e">>],
       [code |-> 8,  cmd |-> <<"-","b","s","d","v","e","r">>],
       [code |-> 9,  cmd |-> <<"-","i","k","e","r","n">>],
       [code |-> 10, cmd |-> <<"-","h","e","l","p">>] >>

cb ==
    << [code |-> 1,  cmd |-> <<"-","m","a","c","h","i","n","e">>],
       [code |-> 2,  cmd |-> <<"-","m","o","d","e","l">>],
       [code |-> 3,  cmd |-> <<"-","n","c","p","u">>],
       [code |-> 4,  cmd |-> <<"-","b","o","r","d","e","r">>],
       [code |-> 5,  cmd |-> <<"-","o","n","c","p","u">>],
       [code |-> 6,  cmd |-> <<"-","i","s","s","m","t">>],
       [code |-> 7,  cmd |-> <<"-","u","n","a","m","e">>],
       [code |-> 8,  cmd |-> <<"-","b","s","d","v","e","r">>],
       [code |-> 9,  cmd |-> <<"-","i","k","e","r","n">>],
       [code |-> 10, cmd |-> <<"-","h","e","l","p">>] >>

(***************************************************************************)
(* The dispatcher.                                                         *)
(***************************************************************************)
\* TRUE iff needle occurs at the start of hay.
RECURSIVE prefix_at(_, _, _, _)
prefix_at(hay, needle, at, k) ==
    IF k > Len(needle) THEN TRUE
    ELSE IF at + k - 1 > Len(hay) THEN FALSE
    ELSE IF hay[at + k - 1] # needle[k] THEN FALSE
    ELSE prefix_at(hay, needle, at, k + 1)

\* strstr(hay, needle) # NULL: the leftmost position is tried first; an
\* empty needle is found at once.
RECURSIVE strstr_from(_, _, _)
strstr_from(hay, needle, at) ==
    IF prefix_at(hay, needle, at, 1) THEN TRUE
    ELSE IF at > Len(hay) THEN FALSE
    ELSE strstr_from(hay, needle, at + 1)

strstr(hay, needle) == strstr_from(hay, needle, 1)

\* The for loop of match_args over the table, from entry i on.
RECURSIVE match_loop(_, _, _)
match_loop(tab, arg, i) ==
    IF i > Len(tab) THEN 0
    ELSE IF strstr(tab[i].cmd, arg) THEN tab[i].code
    ELSE match_loop(tab, arg, i + 1)

\* match_args with exact comparison in place of strstr.
match_args_exact(tab, av) ==
    IF Len(av) < 2 THEN -1
    ELSE IF av[2] = <<"-">> THEN -2
    ELSE IF \E i \in 1..Len(tab) : tab[i].cmd = av[2]
         THEN tab[CHOOSE i \in 1..Len(tab) : tab[i].cmd = av[2]].code
         ELSE 0

\* match_args without the bare-dash test.
match_args_nodash(tab, av) ==
    IF Len(av) < 2 THEN -1
    ELSE match_loop(tab, av[2], 1)

match_args(tab, av) ==
    IF Len(av) < 2 THEN -1
    ELSE IF Len(av[2]) = 1 /\ av[2][1] = "-" THEN -2
    ELSE match_loop(tab, av[2], 1)

(***************************************************************************)
(* get_inst_kern_ver: the memory it reads and its helpers.                 *)
(***************************************************************************)
\* The byte at 0-based index i of memory m.  m is buf followed by past; the
\* byte after the last one of m is taken to be NUL.
At(m, i) == IF i < Len(m) THEN m[i + 1] ELSE NUL

\* consltill(p, n): the pointer n bytes after p.
consltill(q, n) == q + n

\* The condition of the if at p: the four comparisons, left to right, the
\* first failing one ending the evaluation.  The number of them that held.
RECURSIVE marker_at(_, _, _)
marker_at(m, q, k) ==
    IF k = Len(Marker) THEN k
    ELSE IF At(m, q + k) = Marker[k + 1] THEN marker_at(m, q, k + 1)
    ELSE k

\* The inner for loop from p = q to end: whether the marker was found, where,
\* and the highest index read.
RECURSIVE for_p(_, _, _, _)
for_p(m, q, end, mx) ==
    IF q >= end THEN [found |-> FALSE, p |-> q, touched |-> mx]
    ELSE LET k == marker_at(m, q, 0)
             t == Max(mx, q + Min(k, Len(Marker) - 1))
         IN  IF k = Len(Marker)
             THEN [found |-> TRUE, p |-> q, touched |-> t]
             ELSE for_p(m, q + 1, end, t)

\* strpchr(haystack, c), haystack being the pointer q into m: the position
\* of c, 0 when a NUL comes first; last is the index of the last byte read.
RECURSIVE strpchr_from(_, _, _, _)
strpchr_from(m, q, c, i) ==
    IF At(m, q + i) = NUL THEN [ret |-> 0, last |-> q + i]
    ELSE IF At(m, q + i) = c THEN [ret |-> i, last |-> q + i]
    ELSE strpchr_from(m, q, c, i + 1)

strpchr(m, q, c) == strpchr_from(m, q, c, 0)

\* strdup(p): the bytes from q up to the first NUL; last is the index of
\* that NUL.
RECURSIVE strdup_from(_, _, _)
strdup_from(m, q, acc) ==
    IF At(m, q) = NUL THEN [str |-> acc, last |-> q]
    ELSE strdup_from(m, q + 1, Append(acc, At(m, q)))

strdup(m, q) == strdup_from(m, q, <<>>)

\* m with byte b stored at 0-based index i (a store past the modelled
\* memory is not recorded).
Store(m, i, b) == [j \in 1..Len(m) |-> IF j = i + 1 THEN b ELSE m[j]]

(***************************************************************************)
(* Inputs.                                                                 *)
(***************************************************************************)
progname == <<"s","y","s","v","e","r">>

Substrings(t) == {SubSeq(t, i, j) : i \in 1..Len(t) + 1, j \in 0..Len(t)}

\* First arguments: every substring of every flag token (the empty string
\* and "-" among them) and some strings no token contains.
Args ==
    UNION {Substrings(cb[i].cmd) : i \in 1..Len(cb)}
    \cup { <<"x","y","z">>, <<"-","h","e","l","p","x">>, <<"-","-">>,
           <<"-","b","s","d">>, <<"m","o","d","e","l","-">> }

Argvs ==
    {<<progname>>} \cup {<<progname, a>> : a \in Args}
    \cup {<<progname, <<"-","h","e","l","p">>, <<"x","y","z">> >>,
          <<progname, <<"-">>, <<"-","h","e","l","p">> >>}

Uids == {0, 1000}

\* Pieces of a kernel image: the marker, the marker without its first byte,
\* a lone '@', a newline, a text byte, a text byte and its newline, a NUL.
Segs ==
    { Marker, <<"(", "#", ")">>, <<"@">>, <<NL>>, <<"v">>, <<"v", NL>>,
      <<NUL>> }

RECURSIVE Images(_)
Images(n) ==
    IF n = 0 THEN {<<>>}
    ELSE LET shorter == Images(n - 1)
         IN  shorter \cup {f \o s : f \in shorter, s \in Segs}

Kerns == Images(MaxSegs)

FewKerns == { <<>>, Marker \o <<"v", NL, "v">>, <<"v">> }

\* What the stack holds before the first read(): buf and the bytes after it
\* are uninitialised.
Cyc(pat, n) == [i \in 1..n |-> pat[((i - 1) % Len(pat)) + 1]]

Garbage ==
    { Cyc(<<NUL>>, BufSize + PastLen), Cyc(<<"v">>, BufSize + PastLen) }
    \cup { Cyc(SubSeq(<<"(", "#", ")", NL, "(", "#", ")", NL>>, r, r + 3),
               BufSize + PastLen) : r \in 1..4 }

NoVer == [null |-> TRUE, str |-> <<>>]
NoOut == [stream |-> "none", msg |-> "", text |-> <<>>, num |-> 0]

InitCommon ==
    /\ pc = "start"
    /\ code = 0
    /\ byte_out = 0
    /\ fd = "none"
    /\ off = 0
    /\ closes = 0
    /\ nread = 0
    /\ p = 0
    /\ touched = -1
    /\ kern_ver = NoVer
    /\ out = NoOut
    /\ status = 0

\* Any command line, a few kernel images.
InitArgs ==
    /\ argv \in Argvs
    /\ uid \in Uids
    /\ euid \in Uids
    /\ kern \in FewKerns
    /\ buf = Cyc(<<NUL>>, BufSize)
    /\ past = Cyc(<<NUL>>, PastLen)

\* sysver -ikern run by root, any kernel image.
InitKern ==
    /\ argv = <<progname, <<"-","i","k","e","r","n">> >>
    /\ uid = 0
    /\ euid = 0
    /\ kern \in Kerns
    /\ \E g \in Garbage :
          /\ buf = SubSeq(g, 1, BufSize)
          /\ past = SubSeq(g, BufSize + 1, BufSize + PastLen)

Init == InitCommon /\ (InitArgs \/ InitKern)

\* sysver -ikern run by root, any kernel image, on a stack that happens to
\* hold only NUL bytes: one of the stacks of InitKern.
InitKernZeroed ==
    /\ InitKern
    /\ buf = Cyc(<<NUL>>, BufSize)
    /\ past = Cyc(<<NUL>>, PastLen)

InitZeroed == InitCommon /\ (InitArgs \/ InitKernZeroed)

(***************************************************************************)
(* main.                                                                   *)
(***************************************************************************)
kernVars == <<fd, off, closes, buf, past, nread, p, touched, kern_ver>>
envVars  == <<argv, uid, euid, kern>>

\* The process ends with status st after writing o.
Exit(st, o) ==
    /\ pc' = "exit"
    /\ status' = st
    /\ out' = o

Stdout(m, t, n) == [stream |-> "stdout", msg |-> m, text |-> t, num |-> n]
Stderr(m, t, n) == [stream |-> "stderr", msg |-> m, text |-> t, num |-> n]

\* What sysctl() can store: strings and numbers of the running system.
HwStrings == { <<"a","m","d","6","4">>, <<>> }
HwNumbers == { -1, 0, 1, 2, 8 }
ByteOrders == { 1234, 4321, 3412, 0, 9999, -1 }

\* switch (match_args(cb, argv))
MatchArgs ==
    /\ pc = "start"
    /\ code' = match_args(cb, argv)
    /\ pc' = "switch"
    /\ UNCHANGED <<envVars, byte_out, kernVars, out, status>>

\* case 1, case 2: get_sysctl_string succeeded.  Control leaves the switch
\* and reaches the end of main, which returns 0.
HwString ==
    /\ pc = "switch"
    /\ code \in {1, 2}
    /\ \E s \in HwStrings : Exit(EXIT_SUCCESS, Stdout("%s\n", s, 0))
    /\ UNCHANGED <<envVars, code, byte_out, kernVars>>

\* case 3, case 5: get_sysctl_number succeeded.
HwNumber ==
    /\ pc = "switch"
    /\ code \in {3, 5}
    /\ \E n \in HwNumbers : Exit(EXIT_SUCCESS, Stdout("%d\n", <<>>, n))
    /\ UNCHANGED <<envVars, code, byte_out, kernVars>>

\* The inner switch of case 4, with the first two words exchanged.
byte_order_swapped(v) ==
    IF v = 1234 THEN "big"
    ELSE IF v = 4321 THEN "little"
    ELSE "mixed"

\* The inner switch of case 4.
byte_order(v) ==
    IF v = 1234 THEN "little"
    ELSE IF v = 4321 THEN "big"
    ELSE "mixed"

\* case 4
ByteOrder ==
    /\ pc = "switch"
    /\ code = 4
    /\ \E v \in ByteOrders :
          /\ byte_out' = v
          /\ Exit(EXIT_SUCCESS, Stdout(byte_order(v), <<>>, 0))
    /\ UNCHANGED <<envVars, code, kernVars>>

\* case 6
Smt ==
    /\ pc = "switch"
    /\ code = 6
    /\ \E n \in HwNumbers :
          Exit(EXIT_SUCCESS, Stdout(IF n # 0 THEN "yes" ELSE "no", <<>>, 0))
    /\ UNCHANGED <<envVars, code, byte_out, kernVars>>

\* sysctl() == -1 in get_sysctl_string or get_sysctl_number.
SysctlFail ==
    /\ pc = "switch"
    /\ code \in 1..6
    /\ Exit(EXIT_FAILURE, Stderr("sysctl()", <<>>, 0))
    /\ UNCHANGED <<envVars, code, byte_out, kernVars>>

\* case 7, case 8: get_uname_info(0), get_uname_info(1)
Uname ==
    /\ pc = "switch"
    /\ code \in {7, 8}
    /\ Exit(EXIT_SUCCESS,
            Stdout(IF code = 8 THEN "%s %s\n" ELSE "%s %s %s %s %s\n", <<>>, 0))
    /\ UNCHANGED <<envVars, code, byte_out, kernVars>>

\* uname() == -1
UnameFail ==
    /\ pc = "switch"
    /\ code \in {7, 8}
    /\ Exit(EXIT_FAILURE, Stderr("uname()", <<>>, 0))
    /\ UNCHANGED <<envVars, code, byte_out, kernVars>>

\* print_usage(status) with the failure status whatever it is given.
print_usage_fail(st) ==
    Exit(EXIT_FAILURE, Stderr("usage", <<>>, 0))

\* print_usage(status)
print_usage(st) ==
    Exit(st, IF st = EXIT_SUCCESS THEN Stdout("usage", <<>>, 0)
                                  ELSE Stderr("usage", <<>>, 0))

\* case 10
Help ==
    /\ pc = "switch"
    /\ code = 10
    /\ print_usage(EXIT_SUCCESS)
    /\ UNCHANGED <<envVars, code, byte_out, kernVars>>

\* case 0
Invalid ==
    /\ pc = "switch"
    /\ code = 0
    /\ Exit(EXIT_FAILURE, Stderr("'%s' option is invalid.", argv[2], 0))
    /\ UNCHANGED <<envVars, code, byte_out, kernVars>>

\* case -1
MissingOperand ==
    /\ pc = "switch"
    /\ code = -1
    /\ print_usage(EXIT_FAILURE)
    /\ UNCHANGED <<envVars, code, byte_out, kernVars>>

\* case -2
BareDash ==
    /\ pc = "switch"
    /\ code = -2
    /\ Exit(EXIT_FAILURE, Stderr("'%s' expects an option.", argv[2], 0))
    /\ UNCHANGED <<envVars, code, byte_out, kernVars>>

(***************************************************************************)
(* case 9: get_inst_kern_ver, built with REQUIRE_ROOT.                     *)
(***************************************************************************)
\* The REQUIRE_ROOT block.
PrivCheck ==
    /\ pc = "switch"
    /\ code = 9
    /\ IF uid # 0
       THEN IF euid # 0
            THEN Exit(EXIT_FAILURE, Stderr("%s must be run as root", progname, 0))
            ELSE Exit(EXIT_FAILURE,
                      Stderr("getuid(): %d != geteuid(): %d", <<>>, 0))
       ELSE /\ pc' = "open"
            /\ UNCHANGED <<out, status>>
    /\ UNCHANGED <<envVars, code, byte_out, kernVars>>

\* fd = open(BSD_KERN_PATH, O_RDONLY) succeeded.
Open ==
    /\ pc = "open"
    /\ fd' = "open"
    /\ off' = 0
    /\ pc' = "read"
    /\ UNCHANGED <<envVars, code, byte_out, closes, buf, past, nread, p,
                   touched, kern_ver, out, status>>

\* fd == -1
OpenFail ==
    /\ pc = "open"
    /\ Exit(EXIT_FAILURE, Stderr("open()", <<>>, 0))
    /\ UNCHANGED <<envVars, code, byte_out, kernVars>>

\* The loop's read() without the close() after the loop.
Read_noclose ==
    /\ pc = "read"
    /\ LET n == Min(BufSize, Len(kern) - off)
       IN  /\ nread' = n
           /\ buf' = [i \in 1..BufSize |-> IF i <= n THEN kern[off + i] ELSE buf[i]]
           /\ off' = off + n
           /\ touched' = -1
           /\ IF n > 0
              THEN /\ pc' = "scan"
                   /\ UNCHANGED <<fd, closes, kern_ver>>
              ELSE /\ pc' = "ret"
                   /\ kern_ver' = NoVer
                   /\ UNCHANGED <<fd, closes>>
    /\ UNCHANGED <<envVars, code, byte_out, past, p, out, status>>

\* nread = read(fd, buf, sizeof(buf)) on a regular file: the next BufSize
\* bytes, fewer at the end of the file, 0 after it.  On 0 the loop ends:
\* close(fd); return (NULL).
Read ==
    /\ pc = "read"
    /\ LET n == Min(BufSize, Len(kern) - off)
       IN  /\ nread' = n
           /\ buf' = [i \in 1..BufSize |-> IF i <= n THEN kern[off + i] ELSE buf[i]]
           /\ off' = off + n
           /\ touched' = -1
           /\ IF n > 0
              THEN /\ pc' = "scan"
                   /\ UNCHANGED <<fd, closes, kern_ver>>
              ELSE /\ pc' = "ret"
                   /\ fd' = "closed"
                   /\ closes' = closes + 1
                   /\ kern_ver' = NoVer
    /\ UNCHANGED <<envVars, code, byte_out, past, p, out, status>>

\* read() == -1: the loop ends as at the end of the file.
ReadFail ==
    /\ pc = "read"
    /\ nread' = -1
    /\ pc' = "ret"
    /\ fd' = "closed"
    /\ closes' = closes + 1
    /\ kern_ver' = NoVer
    /\ UNCHANGED <<envVars, code, byte_out, off, buf, past, p, touched, out,
                   status>>

\* The inner for loop over the chunk.  Marker found: skip it, cut the
\* string at the newline strpchr reports, close(fd).  Not found: read again.
Scan ==
    /\ pc = "scan"
    /\ LET m == buf \o past
           r == for_p(m, 0, nread, -1)
           q == consltill(r.p, 4)
           pos_dist == strpchr(m, q, NL)
           m2 == IF pos_dist.ret > 0 THEN Store(m, q + pos_dist.ret, NUL) ELSE m
       IN  IF r.found
           THEN /\ p' = q
                /\ buf' = SubSeq(m2, 1, BufSize)
                /\ past' = SubSeq(m2, BufSize + 1, Len(m2))
                /\ touched' = Max(r.touched, pos_dist.last)
                /\ fd' = "closed"
                /\ closes' = closes + 1
                /\ pc' = "strdup"
           ELSE /\ p' = r.p
                /\ touched' = r.touched
                /\ pc' = "read"
                /\ UNCHANGED <<buf, past, fd, closes>>
    /\ UNCHANGED <<envVars, code, byte_out, off, nread, kern_ver, out, status>>

\* dup = strdup(p) succeeded; return (dup).
Strdup ==
    /\ pc = "strdup"
    /\ LET d == strdup(buf \o past, p)
       IN  /\ kern_ver' = [null |-> FALSE, str |-> d.str]
           /\ touched' = Max(touched, d.last)
    /\ pc' = "ret"
    /\ UNCHANGED <<envVars, code, byte_out, fd, off, closes, buf, past, nread,
                   p, out, status>>

\* strdup() == NULL
StrdupFail ==
    /\ pc = "strdup"
    /\ Exit(EXIT_FAILURE, Stderr("strdup()", <<>>, 0))
    /\ UNCHANGED <<envVars, code, byte_out, kernVars>>

\* case 9 of main after get_inst_kern_ver returned.
ReportKern ==
    /\ pc = "ret"
    /\ IF kern_ver.null
       THEN Exit(EXIT_SUCCESS, Stderr("unknown (I can't find it!)\n", <<>>, 0))
       ELSE Exit(EXIT_SUCCESS, Stdout("%s\n", kern_ver.str, 0))
    /\ UNCHANGED <<envVars, code, byte_out, kernVars>>

Next ==
    \/ MatchArgs
    \/ HwString
    \/ HwNumber
    \/ ByteOrder
    \/ Smt
    \/ SysctlFail
    \/ Uname
    \/ UnameFail
    \/ Help
    \/ Invalid
    \/ MissingOperand
    \/ BareDash
    \/ PrivCheck
    \/ Open
    \/ OpenFail
    \/ Read
    \/ ReadFail
    \/ Scan
    \/ Strdup
    \/ StrdupFail
    \/ ReportKern

Spec == Init /\ [][Next]_vars

\* The runs of Spec that start on a zeroed stack.
SpecZeroedStack == InitZeroed /\ [][Next]_vars

(***************************************************************************)
(* Properties.                                                             *)
(***************************************************************************)
\* The flag tokens in the order the interface documents them, codes 1..10.
FlagTokens ==
    << <<"-","m","a","c","h","i","n","e">>, <<"-","m","o","d","e","l">>,
       <<"-","n","c","p","u">>, <<"-","b","o","r","d","e","r">>,
       <<"-","o","n","c","p","u">>, <<"-","i","s","s","m","t">>,
       <<"-","u","n","a","m","e">>, <<"-","b","s","d","v","e","r">>,
       <<"-","i","k","e","r","n">>, <<"-","h","e","l","p">> >>

\* a is a contiguous substring of tok.
Contains(tok, a) ==
    \E i \in 0..(Len(tok) - Len(a)) : SubSeq(tok, i + 1, i + Len(a)) = a

Containing(a) == {i \in 1..Len(FlagTokens) : Contains(FlagTokens[i], a)}

Least(S) == CHOOSE i \in S : \A j \in S : i <= j

\* match_args has just returned.
Dispatched == pc = "switch"
HasArg == Len(argv) >= 2
Dash == <<"-">>

\* C1: for a first argument that is present and is not exactly "-",
\* match_args returns the code (the 1-based table position) of the first
\* flag token that contains the argument as a contiguous substring, and 0
\* exactly when no token contains it.
C1_FirstContainingToken ==
    (Dispatched /\ HasArg /\ argv[2] # Dash) =>
        IF Containing(argv[2]) = {} THEN code = 0
        ELSE code = Least(Containing(argv[2]))

\* "cpu" is in -ncpu and in -oncpu; "xyz" is in no token.
C1_Witness ==
    /\ pc = "switch"
    /\ HasArg
    /\ argv[2] = <<"c","p","u">>
    /\ Cardinality(Containing(argv[2])) = 2
    /\ code = 3

\* C2: each of the ten flag tokens given verbatim is dispatched to its own
\* code 1..10, and no earlier token of the table contains a later one.
C2_FullFlagOwnCode ==
    /\ \A i \in 1..Len(FlagTokens) :
          (Dispatched /\ HasArg /\ argv[2] = FlagTokens[i]) => code = i
    /\ Dispatched =>
          \A i \in 1..Len(cb) : \A j \in (i + 1)..Len(cb) :
              ~ strstr(cb[i].cmd, cb[j].cmd)

\* -oncpu ends with the letters of -ncpu and still gets its own code.
C2_Witness ==
    /\ pc = "switch"
    /\ HasArg
    /\ argv[2] = <<"-","o","n","c","p","u">>
    /\ code = 5

\* C5: a first argument that is exactly "-" yields -2, never a table code or
\* 0, although every token contains "-"; the process then ends with the
\* "expects an option" error.  No argument at all yields -1 and the usage
\* block on the error stream.
C5_BareDash ==
    /\ (Dispatched /\ HasArg /\ argv[2] = Dash) =>
          /\ code = -2
          /\ Containing(Dash) = 1..Len(FlagTokens)
    /\ (Dispatched /\ ~ HasArg) => code = -1
    /\ (pc = "exit" /\ HasArg /\ argv[2] = Dash) =>
          /\ out = Stderr("'%s' expects an option.", Dash, 0)
          /\ status # 0
    /\ (pc = "exit" /\ ~ HasArg) =>
          /\ out = Stderr("usage", <<>>, 0)
          /\ status # 0

C5_Witness ==
    /\ pc = "exit"
    /\ HasArg
    /\ argv[2] = Dash
    /\ code = -2
    /\ out.msg = "'%s' expects an option."

\* How a finished run ended, read off what it wrote.
FailureMsgs ==
    { "sysctl()", "uname()", "open()", "strdup()", "%s must be run as root",
      "getuid(): %d != geteuid(): %d", "'%s' option is invalid.",
      "'%s' expects an option." }

FailedRun ==
    \/ code \in {-1, -2, 0}
    \/ out.msg \in FailureMsgs

CompletedRun ==
    /\ code \in 1..10
    /\ out.msg \notin FailureMsgs

\* C6: the exit status is 0 when the dispatched operation completed (help
\* and marker-not-found included) and non-zero when the run ended by a
\* missing operand, a bare dash, an unrecognized option, a failed sysctl,
\* uname or open, or a failed privilege check.
C6_ExitStatus ==
    pc = "exit" =>
        /\ FailedRun => status # 0
        /\ CompletedRun => status = 0
        /\ (code = 10) => status = 0
        /\ (code = 9 /\ out.msg = "unknown (I can't find it!)\n") => status = 0

\* The marker-not-found outcome: end of file reached, exit status 0.
C6_Witness ==
    /\ pc = "exit"
    /\ code = 9
    /\ nread = 0
    /\ kern_ver.null
    /\ out.stream = "stderr"
    /\ status = 0

\* C7: the byte-order flag prints "little" for 1234, "big" for 4321 and
\* "mixed" for every other integer.
C7_ByteOrderWord ==
    (pc = "exit" /\ code = 4 /\ out.stream = "stdout") =>
        /\ byte_out = 1234 => out.msg = "little"
        /\ byte_out = 4321 => out.msg = "big"
        /\ byte_out \notin {1234, 4321} => out.msg = "mixed"

C7_Witness ==
    /\ pc = "exit"
    /\ code = 4
    /\ byte_out = 4321
    /\ out = Stdout("big", <<>>, 0)

\* C9: once the image is open, every way out of get_inst_kern_ver has
\* closed the descriptor exactly once, and a read is only issued on an open
\* descriptor.
C9_ClosedOnce ==
    /\ closes <= 1
    /\ pc \in {"read", "scan"} => (fd = "open" /\ closes = 0)
    /\ pc \in {"strdup", "ret"} => (fd = "closed" /\ closes = 1)
    /\ (pc = "exit" /\ fd # "none") => (fd = "closed" /\ closes = 1)

\* The failed-strdup exit: closed before the process ended.
C9_Witness ==
    /\ pc = "exit"
    /\ out.msg = "strdup()"
    /\ fd = "closed"
    /\ closes = 1

\* 1-based positions of kernel image f where the marker starts.
MarkerStarts(f) ==
    {i \in 1..Len(f) : i + 3 <= Len(f) /\ SubSeq(f, i, i + 3) = Marker}

\* 1-based positions of the newlines of f after the marker that starts at i.
NewlinesAfter(f, i) == {j \in (i + 4)..Len(f) : f[j] = NL}

\* The read() that delivers the byte at 1-based position i.
ChunkOf(i) == (i - 1) \div BufSize

\* The first marker of f and the first newline after it are delivered by the
\* same read().
MarkerLineInOneChunk(f) ==
    /\ MarkerStarts(f) # {}
    /\ NewlinesAfter(f, Least(MarkerStarts(f))) # {}
    /\ ChunkOf(Least(MarkerStarts(f))) =
           ChunkOf(Least(NewlinesAfter(f, Least(MarkerStarts(f)))))

\* The bytes between the end of the first marker and the first newline
\* after it.
VersionText(f) ==
    SubSeq(f, Least(MarkerStarts(f)) + 4,
           Least(NewlinesAfter(f, Least(MarkerStarts(f)))) - 1)

\* get_inst_kern_ver has returned and no read() failed.
Returned == pc = "ret" /\ nread >= 0

\* C3: when the first marker and the first newline after it lie in the same
\* chunk, get_inst_kern_ver returns exactly the bytes between them, also
\* when there are none.
C3_ReturnsVersionText ==
    (Returned /\ MarkerLineInOneChunk(kern)) =>
        kern_ver = [null |-> FALSE, str |-> VersionText(kern)]

\* C4: for an image with no marker anywhere, get_inst_kern_ver returns NULL
\* and main writes the "unknown" message to the error stream and nothing
\* to standard output.
C4_NoMarkerIsAbsent ==
    MarkerStarts(kern) = {} =>
        /\ pc = "ret" => kern_ver.null
        /\ pc = "strdup" => FALSE
        /\ (pc = "exit" /\ fd = "closed") =>
              out = Stderr("unknown (I can't find it!)\n", <<>>, 0)

\* C8: every byte of buf that the scan of a chunk reads (the marker
\* comparisons, strpchr, strdup) has an index below what read() returned.
C8_ReadsOnlyDelivered ==
    nread > 0 => touched < nread

\* C10: with REQUIRE_ROOT the image is opened only after the privilege
\* check passed: a non-zero real user id ends the run before the open, with
\* the message its effective user id selects, and a run whose effective
\* user id is non-zero never reaches the open.
C10_OpenOnlyPrivileged ==
    /\ (pc = "open" \/ fd # "none") => (uid = 0 /\ euid = 0)
    /\ (pc = "exit" /\ code = 9 /\ uid # 0 /\ euid # 0) =>
          /\ out = Stderr("%s must be run as root", progname, 0)
          /\ status # 0
    /\ (pc = "exit" /\ code = 9 /\ uid # 0 /\ euid = 0) =>
          /\ out = Stderr("getuid(): %d != geteuid(): %d", <<>>, 0)
          /\ status # 0

====
